---------------------------- MODULE Spec2Model ----------------------------
(***************************************************************************)
(* Blockly procedure utilities (src/core/procedures.ts) and the path       *)
(* object of the common renderer (src/core/renderers/common/               *)
(* path_object.js).                                                        *)
(*                                                                         *)
(* A string is a sequence of one-character strings, so that trimming, the  *)
(* case folding of Names.equals, the regular expression of findLegalName   *)
(* and the number formatting of its bump are computed, not assumed.        *)
(* A JavaScript number is an IEEE double: the trailing integer of a name   *)
(* is kept as its decimal digits and incremented with the precision of a   *)
(* double (exact below 2^53, absorbed at 2^53).                            *)
(***************************************************************************)
EXTENDS Integers, Sequences, FiniteSets, TLC

VARIABLES
    workspace,   \* workspace.getAllBlocks(false): the blocks, in workspace order
    isFlyout,    \* the workspace is a flyout: block.isInFlyout of each of its blocks
    recordUndo,  \* eventUtils' global record-undo flag
    Blocks,      \* the registry of block types (the Blocks table)
    events,      \* the events fired by the last operation, in order
    op,          \* the last operation that ran ("init" before any)
    arg,         \* its inputs
    ret,         \* what it returned or observed
    calls,       \* the renameProcedure invocations it made, in order
    mutators,    \* the mutator of each block: its workspace, toolbox, listeners
    queue,       \* the events fired and not yet delivered (FIFO)
    pathObject   \* a PathObject: its style, its path's attributes, its root's classes

vars == <<workspace, isFlyout, recordUndo, Blocks, events, op, arg, ret, calls,
          mutators, queue, pathObject>>

\* The state of the editor's surface, which the procedure operations leave alone.
gui == <<mutators, queue, pathObject>>

\* No block has a mutator, no event is pending, no path object is built.
NoGui == mutators = <<>> /\ queue = <<>> /\ pathObject = <<>>

---------------------------------------------------------------------------
(* Bounds *)

\* Most blocks in a workspace.
MaxBlocks == 3

---------------------------------------------------------------------------
(* Characters and strings *)

UpperCase == <<"A","B","C","D","E","F","G","H","I","J","K","L","M",
               "N","O","P","Q","R","S","T","U","V","W","X","Y","Z">>
LowerCase == <<"a","b","c","d","e","f","g","h","i","j","k","l","m",
               "n","o","p","q","r","s","t","u","v","w","x","y","z">>
Digits    == <<"0","1","2","3","4","5","6","7","8","9">>

\* Line terminators (not matched by "." in a regular expression) and the
\* white space String.prototype.trim strips.
LF == "\n"
LineTerminators == {LF}
WhiteSpace == {" ", LF}

Range(s) == {s[i] : i \in 1..Len(s)}
IndexOf(seq, c) == CHOOSE i \in 1..Len(seq) : seq[i] = c

\* null, as returned by a half-built caller's getProcedureCall.
Null == <<"null">>

\* The value of each decimal digit.
DigitValue == [c \in Range(Digits) |-> IndexOf(Digits, c) - 1]

isDigit(c) == c \in DOMAIN DigitValue

\* The lower-case letter of each upper-case letter.
LowerOf == [c \in Range(UpperCase) |-> LowerCase[IndexOf(UpperCase, c)]]

toLowerCaseChar(c) == IF c \in DOMAIN LowerOf THEN LowerOf[c] ELSE c

\* String.prototype.toLowerCase
toLowerCase(s) == [i \in 1..Len(s) |-> toLowerCaseChar(s[i])]

\* Names.equals(name1, name2): name1.toLowerCase() === name2.toLowerCase()
NamesEquals(name1, name2) == toLowerCase(name1) = toLowerCase(name2)

\* String.prototype.trim: strips leading and trailing white space.
RECURSIVE trimStart(_)
trimStart(s) ==
    IF s # <<>> /\ Head(s) \in WhiteSpace THEN trimStart(Tail(s)) ELSE s

RECURSIVE trimEnd(_)
trimEnd(s) ==
    IF s # <<>> /\ s[Len(s)] \in WhiteSpace
    THEN trimEnd(SubSeq(s, 1, Len(s) - 1)) ELSE s

trim(s) == trimEnd(trimStart(s))

---------------------------------------------------------------------------
(* Numbers: parseInt(digits, 10) + 1, converted back to a string *)

\* 2^53 = 9007199254740992: from here on a double no longer holds every
\* integer, and 2^53 + 1 rounds (ties to even) back to 2^53.
TwoTo53 == <<"9","0","0","7","1","9","9","2","5","4","7","4","0","9","9","2">>

\* The decimal digits of the integer a digit string denotes (no leading zeros).
RECURSIVE stripZeros(_)
stripZeros(d) ==
    IF Len(d) > 1 /\ Head(d) = "0" THEN stripZeros(Tail(d)) ELSE d

digitVal(c) == DigitValue[c]

\* a < b for two digit strings without leading zeros.
RECURSIVE lexLess(_, _)
lexLess(a, b) ==
    IF a = <<>> THEN FALSE
    ELSE IF digitVal(Head(a)) # digitVal(Head(b))
         THEN digitVal(Head(a)) < digitVal(Head(b))
         ELSE lexLess(Tail(a), Tail(b))

digitsLess(a, b) ==
    \/ Len(a) < Len(b)
    \/ Len(a) = Len(b) /\ lexLess(a, b)

\* n + 1 in exact decimal arithmetic.
RECURSIVE incDigits(_)
incDigits(d) ==
    IF d = <<>> THEN <<"1">>
    ELSE LET front == SubSeq(d, 1, Len(d) - 1)
             last  == d[Len(d)]
         IN  IF last = "9" THEN incDigits(front) \o <<"0">>
             ELSE front \o <<Digits[digitVal(last) + 2]>>

\* String(parseInt(d, 10) + 1) for a digit string d of value at most 2^53
\* (every name enumerated below keeps its trailing integer in that range):
\* exact below 2^53; at 2^53 the sum rounds back to 2^53.
parseIntPlusOne(d) ==
    LET n == stripZeros(d)
    IN  IF digitsLess(n, TwoTo53) THEN incDigits(n) ELSE n

---------------------------------------------------------------------------
(* Blocks *)

\* A block: its type, the value of its NAME field (the name getProcedureDef
\* or getProcedureCall returns), its parameter names, and the methods it
\* exposes (the capabilities the scans probe for).
Block(type, name, args, caps) ==
    [type |-> type, name |-> name, args |-> args, caps |-> caps]

\* getProcedureDef(): [name, parameter names, has return value]; null from a
\* block that is only half-built (the case getDefinition tests its tuple for).
getProcedureDef(block) ==
    IF block.args = Null THEN Null
    ELSE <<block.name, block.args, block.type = "procedures_defreturn">>

\* getProcedureCall(): the name of the procedure called, or null.
getProcedureCall(block) == block.name

\* The methods of the built-in definition and caller blocks.
DefCaps    == {"getProcedureDef", "mutationToDom", "domToMutation"}
CallerCaps == {"getProcedureCall", "renameProcedure", "mutationToDom",
               "domToMutation"}

SeqsUpTo(S, n) == UNION {[1..k -> S] : k \in 0..n}

---------------------------------------------------------------------------
(* isNameUsed, isLegalName, findLegalName *)

\* What a scan did: it raised a TypeError, or it returned a value.
Raises(nothing) == [threw |-> TRUE, value |-> nothing]
Returns(value)  == [threw |-> FALSE, value |-> value]

\* The loop of isNameUsed from the i-th block on. procName[0] raises a
\* TypeError when getProcedureDef() returned null.
RECURSIVE isNameUsedFrom(_, _, _, _)
isNameUsedFrom(i, name, ws, opt_exclude) ==
    IF i > Len(ws) THEN Returns(FALSE)
    ELSE IF i = opt_exclude
    THEN isNameUsedFrom(i + 1, name, ws, opt_exclude)
    ELSE IF "getProcedureDef" \notin ws[i].caps
    THEN isNameUsedFrom(i + 1, name, ws, opt_exclude)
    ELSE LET procName == getProcedureDef(ws[i])
         IN  IF procName = Null THEN Raises(FALSE)
             ELSE IF NamesEquals(procName[1], name) THEN Returns(TRUE)
             ELSE isNameUsedFrom(i + 1, name, ws, opt_exclude)

\* isNameUsed(name, workspace, opt_exclude), opt_exclude the index of the
\* block excluded (0: none): what it returns in a workspace whose definition
\* blocks are built.
isNameUsed(name, ws, opt_exclude) ==
    isNameUsedFrom(1, name, ws, opt_exclude).value

isLegalName(name, ws, opt_exclude) == ~isNameUsed(name, ws, opt_exclude)

\* Msg['UNNAMED_KEY'] || 'unnamed'
UNNAMED == <<"u","n","n","a","m","e","d">>

\* The number of trailing decimal digits of a name.
RECURSIVE trailingDigits(_)
trailingDigits(name) ==
    IF name # <<>> /\ isDigit(name[Len(name)])
    THEN 1 + trailingDigits(SubSeq(name, 1, Len(name) - 1))
    ELSE 0

\* name.match(/^(.*?)(\d+)$/): r[1] is the shortest prefix followed by digits
\* up to the end, so r[2] is the whole trailing run of digits; "." matches no
\* line terminator, so there is no match when one precedes the digits.
regexMatch(name) ==
    LET k  == trailingDigits(name)
        r1 == SubSeq(name, 1, Len(name) - k)
        r2 == SubSeq(name, Len(name) - k + 1, Len(name))
    IN  IF k = 0 \/ Range(r1) \cap LineTerminators # {}
        THEN [matched |-> FALSE, r1 |-> <<>>, r2 |-> <<>>]
        ELSE [matched |-> TRUE, r1 |-> r1, r2 |-> r2]

\* One pass of the body of findLegalName's loop.
bump(name) ==
    LET r == regexMatch(name)
    IN  IF ~r.matched THEN name \o <<"2">>
        ELSE r.r1 \o parseIntPlusOne(r.r2)

\* legalLoop with an if in place of the while: one bump at most.
legalLoopOnce(name, ws, block, trace) ==
    IF isLegalName(name, ws, block)
    THEN [hang |-> FALSE, name |-> name, trace |-> Append(trace, name)]
    ELSE [hang |-> FALSE, name |-> bump(name),
          trace |-> trace \o <<name, bump(name)>>]

\* legalLoop as a do-while: the candidate is bumped before it is first tested.
RECURSIVE legalLoopDoWhile(_, _, _, _)
legalLoopDoWhile(name, ws, block, trace) ==
    IF isLegalName(bump(name), ws, block)
    THEN [hang |-> FALSE, name |-> bump(name),
          trace |-> Append(trace, bump(name))]
    ELSE IF bump(bump(name)) = bump(name)
         THEN [hang |-> TRUE, name |-> Null,
               trace |-> trace \o <<bump(name), bump(name)>>]
         ELSE legalLoopDoWhile(bump(name), ws, block,
                               Append(trace, bump(name)))

\* The loop of findLegalName. trace lists the candidates tested, in order.
\* A candidate that is used and that the bump maps to itself is tested again
\* and again: the loop does not end (hang), and nothing is returned.
RECURSIVE legalLoop(_, _, _, _)
legalLoop(name, ws, block, trace) ==
    IF isLegalName(name, ws, block)
    THEN [hang |-> FALSE, name |-> name, trace |-> Append(trace, name)]
    ELSE IF bump(name) = name
         THEN [hang |-> TRUE, name |-> Null,
               trace |-> trace \o <<name, name>>]
         ELSE legalLoop(bump(name), ws, block, Append(trace, name))

\* findLegalName with the flyout test inverted.
findLegalNameInverted(name, ws, inFlyout, block) ==
    IF ~inFlyout
    THEN [hang |-> FALSE, name |-> name, trace |-> <<>>]
    ELSE legalLoop(IF name # <<>> THEN name ELSE UNNAMED, ws, block, <<>>)

\* findLegalName(name, block), for block the i-th block of ws.
findLegalName(name, ws, inFlyout, block) ==
    IF inFlyout
    THEN [hang |-> FALSE, name |-> name, trace |-> <<>>]
    ELSE legalLoop(IF name # <<>> THEN name ELSE UNNAMED, ws, block, <<>>)

---------------------------------------------------------------------------
(* Names used in the workspaces and as proposed names *)

N_foo  == <<"f","o","o">>
N_Foo  == <<"F","o","o">>
N_foo2 == <<"f","o","o","2">>
N_foo09 == <<"f","o","o","0","9">>
N_big  == <<"p">> \o TwoTo53
N_nl5  == <<"a", LF, "5">>

DefNames == {N_foo, N_Foo, N_foo2, N_foo09, N_big, N_nl5, UNNAMED}
ProposedNames == {<<>>, N_foo, N_Foo, N_foo2, N_foo09, N_big, N_nl5}

DefBlocks == {Block("procedures_defnoreturn", n, <<>>, DefCaps) :
                 n \in DefNames}
PlainBlock == Block("text", <<>>, <<>>, {})

---------------------------------------------------------------------------
(* Spec: findLegalName applied to proposed names in bounded workspaces *)

Init ==
    /\ workspace \in SeqsUpTo(DefBlocks \cup {PlainBlock}, MaxBlocks)
    /\ isFlyout \in BOOLEAN
    /\ recordUndo = TRUE
    /\ Blocks = {}
    /\ events = <<>>
    /\ op = "init"
    /\ arg = <<>>
    /\ ret = <<>>
    /\ calls = <<>>
    /\ NoGui

FindLegalName ==
    \E name \in ProposedNames, block \in 1..Len(workspace) :
        /\ op = "init"
        /\ op' = "findLegalName"
        /\ arg' = [name |-> name, block |-> block]
        /\ ret' = findLegalName(name, workspace, isFlyout, block)
        /\ UNCHANGED <<workspace, isFlyout, recordUndo, Blocks, events, calls>>
        /\ UNCHANGED gui

Next == FindLegalName

Spec == Init /\ [][Next]_vars

---------------------------------------------------------------------------
(* rename: the validator of a definition block's NAME field *)

\* A caller block's renameProcedure(oldName, newName): a caller of oldName
\* now calls newName.
renameProcedure(block, oldName, newName) ==
    IF NamesEquals(oldName, getProcedureCall(block))
    THEN [block EXCEPT !.name = newName]
    ELSE block

\* renameTargets without the test of the field's value against the names.
renameTargetsAlways(ws, oldName, name, legalName) ==
    SelectSeq([i \in 1..Len(ws) |-> i],
              LAMBDA i : "renameProcedure" \in ws[i].caps)

\* The blocks rename invokes renameProcedure on, in order: none unless the
\* field's value differs from the trimmed name and from the legal name.
renameTargets(ws, oldName, name, legalName) ==
    IF oldName # name /\ oldName # legalName
    THEN SelectSeq([i \in 1..Len(ws) |-> i],
                   LAMBDA i : "renameProcedure" \in ws[i].caps)
    ELSE <<>>

\* The workspace once rename(name) has run on the NAME field of block and
\* the field has committed the name returned.
renamed(ws, block, targets, oldName, legalName) ==
    [i \in 1..Len(ws) |->
        IF i = block THEN [ws[i] EXCEPT !.name = legalName]
        ELSE IF \E k \in 1..Len(targets) : targets[k] = i
             THEN renameProcedure(ws[i], oldName, legalName)
             ELSE ws[i]]

\* The thread is not stuck in a loop that does not end.
Running == IF op = "init" THEN TRUE ELSE ~ret.hang

\* Proposed names: an exact name, and one with white space around it that
\* differs from it in case only.
RenameNames == {N_foo, <<" ">> \o N_Foo \o <<" ">>}

RenameBlocks ==
    {Block("procedures_defnoreturn", n, <<>>, DefCaps) : n \in {N_foo, N_foo2}}
    \cup {Block("procedures_callnoreturn", N_foo, <<>>, CallerCaps)}

InitRename ==
    /\ workspace \in SeqsUpTo(RenameBlocks, MaxBlocks)
    /\ isFlyout \in BOOLEAN
    /\ recordUndo = TRUE
    /\ Blocks = {}
    /\ events = <<>>
    /\ op = "init"
    /\ arg = <<>>
    /\ ret = <<>>
    /\ calls = <<>>
    /\ NoGui

\* rename(name) on the NAME field of a definition block; the field then
\* commits the name returned. Nothing returns when findLegalName hangs.
Rename ==
    \E proposed \in RenameNames, block \in 1..Len(workspace) :
        LET name      == trim(proposed)
            legal     == findLegalName(name, workspace, isFlyout, block)
            oldName   == workspace[block].name
            targets   == renameTargets(workspace, oldName, name, legal.name)
        IN  /\ Running
            /\ "getProcedureDef" \in workspace[block].caps
            /\ op' = "rename"
            /\ arg' = [name |-> proposed, block |-> block, oldName |-> oldName]
            /\ ret' = [hang |-> legal.hang, name |-> legal.name]
            /\ calls' = IF legal.hang THEN <<>>
                        ELSE [k \in 1..Len(targets) |->
                                 [block |-> targets[k], oldName |-> oldName,
                                  newName |-> legal.name]]
            /\ workspace' = IF legal.hang THEN workspace
                            ELSE renamed(workspace, block, targets, oldName,
                                         legal.name)
            /\ UNCHANGED <<isFlyout, recordUndo, Blocks, events>>
            /\ UNCHANGED gui

NextRename == Rename

SpecRename == InitRename /\ [][NextRename]_vars

\* The blocks of the workspace that expose getProcedureDef.
DefinitionBlocks == {i \in 1..Len(workspace) :
                        "getProcedureDef" \in workspace[i].caps}

\* No two definition blocks outside a flyout have names equal under
\* Names.equals.
NoSharedName ==
    ~isFlyout =>
        \A i, j \in DefinitionBlocks :
            i # j => ~NamesEquals(workspace[i].name, workspace[j].name)

\* The renames of a workspace whose definitions start with different names.
InitDistinct == InitRename /\ NoSharedName

SpecRenameDistinct == InitDistinct /\ [][NextRename]_vars

---------------------------------------------------------------------------
(* getCallers, mutateCallers *)

\* A mutation element: the name attribute and the arg children.
Mutation(name, args) == [name |-> name, args |-> args]

\* defBlock.mutationToDom(true) and caller.mutationToDom(): the block's name
\* and parameters as a mutation element.
mutationToDom(block) == Mutation(block.name, block.args)

\* caller.domToMutation(xmlElement): the caller takes the element's name and
\* parameters.
domToMutation(block, xmlElement) ==
    [block EXCEPT !.name = xmlElement.name, !.args = xmlElement.args]

\* Xml.domToText: the element serialized, its arg children in order.
RECURSIVE argsToText(_)
argsToText(args) ==
    IF args = <<>> THEN <<>>
    ELSE <<"<arg name=\"", Head(args), "\"></arg>">> \o argsToText(Tail(args))

domToText(dom) ==
    <<"<mutation name=\"">> \o dom.name \o <<"\">">>
        \o argsToText(dom.args) \o <<"</mutation>">>

\* if (procName && ...): null and the empty string are falsy.
Truthy(procName) == procName # Null /\ procName # <<>>

\* getCallers(name, workspace): the callers, in workspace order.
getCallers(name, ws) ==
    SelectSeq([i \in 1..Len(ws) |-> i],
              LAMBDA i : /\ "getProcedureCall" \in ws[i].caps
                         /\ Truthy(getProcedureCall(ws[i]))
                         /\ NamesEquals(getProcedureCall(ws[i]), name))

\* new BlockChange(caller, 'mutation', null, oldValue, newValue): the event
\* records the record-undo flag as it is when the event is made.
BlockChange(caller, oldValue, newValue, flag) ==
    [type |-> "change", block |-> caller, element |-> "mutation",
     name |-> Null, oldValue |-> oldValue, newValue |-> newValue,
     recordUndo |-> flag]

\* fireChange without setRecordUndo(false) before the event is made.
fireChangeRecorded(st, caller, oldMutation, newMutation, oldRecordUndo) ==
    [st EXCEPT !.events = Append(@, BlockChange(caller, oldMutation,
                                                newMutation, st.recordUndo)),
               !.recordUndo = oldRecordUndo]

\* setRecordUndo(false); fire(new BlockChange(...)); setRecordUndo(old).
fireChange(st, caller, oldMutation, newMutation, oldRecordUndo) ==
    LET off   == [st EXCEPT !.recordUndo = FALSE]
        fired == [off EXCEPT !.events =
                     Append(@, BlockChange(caller, oldMutation, newMutation,
                                           off.recordUndo))]
    IN  [fired EXCEPT !.recordUndo = oldRecordUndo]

\* mutateCaller firing the event whether or not the mutation changed.
mutateCallerAlways(st, caller, xmlElement, oldRecordUndo) ==
    LET oldMutation == domToText(mutationToDom(st.ws[caller]))
        applied == IF "domToMutation" \in st.ws[caller].caps
                   THEN [st EXCEPT !.ws[caller] = domToMutation(@, xmlElement)]
                   ELSE st
        newMutation == domToText(mutationToDom(applied.ws[caller]))
    IN  fireChange(applied, caller, oldMutation, newMutation, oldRecordUndo)

\* One pass of the body of mutateCallers' loop, on st = [ws, recordUndo,
\* events].
mutateCaller(st, caller, xmlElement, oldRecordUndo) ==
    LET oldMutation == domToText(mutationToDom(st.ws[caller]))
        applied == IF "domToMutation" \in st.ws[caller].caps
                   THEN [st EXCEPT !.ws[caller] = domToMutation(@, xmlElement)]
                   ELSE st
        newMutation == domToText(mutationToDom(applied.ws[caller]))
    IN  IF oldMutation # newMutation
        THEN fireChange(applied, caller, oldMutation, newMutation,
                        oldRecordUndo)
        ELSE applied

RECURSIVE mutateLoop(_, _, _, _)
mutateLoop(st, callers, xmlElement, oldRecordUndo) ==
    IF callers = <<>> THEN st
    ELSE mutateLoop(mutateCaller(st, Head(callers), xmlElement, oldRecordUndo),
                    Tail(callers), xmlElement, oldRecordUndo)

\* mutateCallers(defBlock), for defBlock the i-th block of ws.
mutateCallers(ws, flag, defBlock) ==
    LET oldRecordUndo == flag
        name       == getProcedureDef(ws[defBlock])[1]
        xmlElement == mutationToDom(ws[defBlock])
        callers    == getCallers(name, ws)
    IN  mutateLoop([ws |-> ws, recordUndo |-> flag, events |-> <<>>],
                   callers, xmlElement, oldRecordUndo)

N_x == <<"x">>
N_xy == <<"x", "y">>

MutateBlocks ==
    {Block("procedures_defnoreturn", N_foo, N_xy, DefCaps),
     Block("procedures_defnoreturn", N_foo2, <<>>, DefCaps),
     Block("procedures_callnoreturn", N_foo, N_x, CallerCaps),
     Block("procedures_callnoreturn", N_foo, N_xy, CallerCaps),
     Block("procedures_callnoreturn", N_Foo, N_x, CallerCaps),
     Block("procedures_callnoreturn", N_foo2, N_x, CallerCaps),
     Block("procedures_callnoreturn", Null, <<>>, CallerCaps),
     Block("custom_call", N_foo, N_x, {"getProcedureCall", "mutationToDom"})}

InitMutate ==
    /\ workspace \in SeqsUpTo(MutateBlocks, MaxBlocks)
    /\ isFlyout = FALSE
    /\ recordUndo \in BOOLEAN
    /\ Blocks = {}
    /\ events = <<>>
    /\ op = "init"
    /\ arg = <<>>
    /\ ret = <<>>
    /\ calls = <<>>
    /\ NoGui

\* mutateCallers(defBlock) for a definition block of the workspace.
MutateCallers ==
    \E defBlock \in 1..Len(workspace) :
        LET st == mutateCallers(workspace, recordUndo, defBlock)
        IN  /\ "getProcedureDef" \in workspace[defBlock].caps
            /\ op' = "mutateCallers"
            /\ arg' = [block |-> defBlock, before |-> workspace,
                       recordUndo |-> recordUndo]
            /\ workspace' = st.ws
            /\ recordUndo' = st.recordUndo
            /\ events' = st.events
            /\ UNCHANGED <<isFlyout, Blocks, ret, calls>>
            /\ UNCHANGED gui

NextMutate == MutateCallers

SpecMutate == InitMutate /\ [][NextMutate]_vars

---------------------------------------------------------------------------
(* allProcedures, flyoutCategory *)

\* workspace.getBlocksByType(type, false): the blocks of a type, in order.
getBlocksByType(ws, type) == SelectSeq(ws, LAMBDA b : b.type = type)

\* The order of the digits and letters in the collation localeCompare uses,
\* and their order by code point.
CollationOrder == Digits \o LowerCase
CodePointOrder == Digits \o UpperCase \o LowerCase

\* The collation key of a name at sensitivity 'base': case is ignored.
collationKey(s) ==
    [i \in 1..Len(s) |-> IndexOf(CollationOrder, toLowerCaseChar(s[i]))]

codePointKey(s) == [i \in 1..Len(s) |-> IndexOf(CodePointOrder, s[i])]

\* The comparison of two keys: -1, 0 or 1.
RECURSIVE compareKeys(_, _)
compareKeys(a, b) ==
    IF a = <<>> /\ b = <<>> THEN 0
    ELSE IF a = <<>> THEN -1
    ELSE IF b = <<>> THEN 1
    ELSE IF Head(a) < Head(b) THEN -1
    ELSE IF Head(a) > Head(b) THEN 1
    ELSE compareKeys(Tail(a), Tail(b))

\* a.localeCompare(b, undefined, {sensitivity: 'base'})
localeCompareBase(a, b) == compareKeys(collationKey(a), collationKey(b))

\* procTupleComparator comparing the names by code point (case-sensitive).
procTupleComparatorCodePoint(ta, tb) ==
    compareKeys(codePointKey(ta[1]), codePointKey(tb[1]))

procTupleComparator(ta, tb) == localeCompareBase(ta[1], tb[1])

\* Array.prototype.sort(procTupleComparator): a stable sort.
RECURSIVE insertSorted(_, _)
insertSorted(t, sorted) ==
    IF sorted = <<>> THEN <<t>>
    ELSE IF procTupleComparator(Head(sorted), t) <= 0
         THEN <<Head(sorted)>> \o insertSorted(t, Tail(sorted))
         ELSE <<t>> \o sorted

RECURSIVE sortProcedures(_)
sortProcedures(list) ==
    IF list = <<>> THEN <<>>
    ELSE insertSorted(list[Len(list)],
                      sortProcedures(SubSeq(list, 1, Len(list) - 1)))

\* The getProcedureDef tuples of the blocks of a type, in workspace order.
procedureDefs(ws, type) ==
    LET blocks == getBlocksByType(ws, type)
    IN  [i \in 1..Len(blocks) |-> getProcedureDef(blocks[i])]

allProcedures(root) ==
    <<sortProcedures(procedureDefs(root, "procedures_defnoreturn")),
      sortProcedures(procedureDefs(root, "procedures_defreturn"))>>

\* The block element of a system template: its type, its gap and, for a
\* definition, the NAME field holding the default name of the locale.
SystemTemplate(type, text) ==
    [type |-> type, gap |-> 16,
     children |-> IF text = "" THEN <<>>
                  ELSE <<[tag |-> "field", name |-> "NAME", text |-> text]>>]

\* populateProcedures: one call template per procedure, with its mutation.
populateProcedures(procedureList, templateName) ==
    [i \in 1..Len(procedureList) |->
        [type |-> templateName, gap |-> 16,
         children |-> <<[tag |-> "mutation", name |-> procedureList[i][1],
                         args |-> procedureList[i][2]]>>]]

\* The system templates of the types the registry holds, in order.
systemTemplates(registry) ==
    (IF "procedures_defnoreturn" \in registry
     THEN <<SystemTemplate("procedures_defnoreturn",
                           "Msg.PROCEDURES_DEFNORETURN_PROCEDURE")>>
     ELSE <<>>)
    \o (IF "procedures_defreturn" \in registry
        THEN <<SystemTemplate("procedures_defreturn",
                              "Msg.PROCEDURES_DEFRETURN_PROCEDURE")>>
        ELSE <<>>)
    \o (IF "procedures_ifreturn" \in registry
        THEN <<SystemTemplate("procedures_ifreturn", "")>>
        ELSE <<>>)

\* widenLastGap widening the gap of the first template.
widenFirstGap(xmlList) ==
    IF Len(xmlList) > 0
    THEN [xmlList EXCEPT ![1].gap = 24]
    ELSE xmlList

\* if (xmlList.length) xmlList[xmlList.length - 1].setAttribute('gap', 24)
widenLastGap(xmlList) ==
    IF Len(xmlList) > 0
    THEN [xmlList EXCEPT ![Len(xmlList)].gap = 24]
    ELSE xmlList

flyoutCategory(ws, registry) ==
    LET tuple == allProcedures(ws)
    IN  widenLastGap(systemTemplates(registry))
        \o populateProcedures(tuple[1], "procedures_callnoreturn")
        \o populateProcedures(tuple[2], "procedures_callreturn")

N_apple  == <<"a","p","p","l","e">>
N_Apple  == <<"A","p","p","l","e">>
N_Banana == <<"B","a","n","a","n","a">>

SystemTypes == {"procedures_defnoreturn", "procedures_defreturn",
                "procedures_ifreturn"}

FlyoutBlocks ==
    {Block("procedures_defnoreturn", N_Banana, N_x, DefCaps),
     Block("procedures_defnoreturn", N_apple, <<>>, DefCaps),
     Block("procedures_defnoreturn", N_Apple, N_xy, DefCaps),
     Block("procedures_defreturn", N_Banana, <<>>, DefCaps),
     Block("procedures_defreturn", N_apple, N_x, DefCaps),
     Block("procedures_callnoreturn", N_apple, <<>>, CallerCaps)}

InitFlyout ==
    /\ workspace \in SeqsUpTo(FlyoutBlocks, MaxBlocks)
    /\ isFlyout = FALSE
    /\ recordUndo = TRUE
    /\ Blocks \in SUBSET SystemTypes
    /\ events = <<>>
    /\ op = "init"
    /\ arg = <<>>
    /\ ret = <<>>
    /\ calls = <<>>
    /\ NoGui

AllProcedures ==
    /\ op' = "allProcedures"
    /\ ret' = allProcedures(workspace)
    /\ UNCHANGED <<workspace, isFlyout, recordUndo, Blocks, events, arg, calls>>
    /\ UNCHANGED gui

FlyoutCategory ==
    /\ op' = "flyoutCategory"
    /\ ret' = flyoutCategory(workspace, Blocks)
    /\ UNCHANGED <<workspace, isFlyout, recordUndo, Blocks, events, arg, calls>>
    /\ UNCHANGED gui

NextFlyout == AllProcedures \/ FlyoutCategory

SpecFlyout == InitFlyout /\ [][NextFlyout]_vars

---------------------------------------------------------------------------
(* updateMutatorFlyout, mutatorOpenListener, mutatorChangeListener *)

\* Procedures.DEFAULT_ARG
DEFAULT_ARG == "x"

\* eventUtils.BUBBLE_OPEN, BLOCK_CREATE, BLOCK_DELETE, BLOCK_CHANGE and two
\* of the other event types.
BUBBLE_OPEN  == "bubble_open"
BLOCK_CREATE == "create"
BLOCK_DELETE == "delete"
BLOCK_CHANGE == "change"
BLOCK_MOVE   == "move"
CLICK        == "click"

\* The letters Variables.generateUniqueNameFromOptions draws names from.
VAR_LETTER_OPTIONS ==
    <<"i","j","k","m","n","o","p","q","r","s","t","u","v","w","x","y","z",
      "a","b","c","d","e","f","g","h">>

\* The loop of generateUniqueNameFromOptions: the first letter, from the
\* start character on, that no used name equals when lowered; past the last
\* letter the letters start again with the next number as a suffix.
RECURSIVE potentialName(_, _, _)
potentialName(letterIndex, suffix, usedNames) ==
    LET potName == <<VAR_LETTER_OPTIONS[letterIndex]>> \o suffix
        inUse   == \E i \in 1..Len(usedNames) :
                       toLowerCase(usedNames[i]) = potName
    IN  IF ~inUse THEN potName
        ELSE IF letterIndex = Len(VAR_LETTER_OPTIONS)
             THEN potentialName(1, incDigits(suffix), usedNames)
             ELSE potentialName(letterIndex + 1, suffix, usedNames)

\* Variables.generateUniqueNameFromOptions(startChar, usedNames)
generateUniqueNameFromOptions(startChar, usedNames) ==
    IF usedNames = <<>> THEN <<startChar>>
    ELSE potentialName(IndexOf(VAR_LETTER_OPTIONS, startChar), <<>>, usedNames)

\* A block template of a toolbox: <block type=...><field name="NAME">text.
Template(type, text) ==
    [type |-> type,
     children |-> IF text = Null THEN <<>>
                  ELSE <<[tag |-> "field", name |-> "NAME", text |-> text]>>]

\* block.getFieldValue('NAME') of a block of a mutator workspace.
getFieldValue(block) == block.name

\* updateMutatorFlyout(workspace), for blocks the blocks of the workspace:
\* the xml element handed to workspace.updateToolbox.
updateMutatorFlyout(blocks) ==
    LET args      == getBlocksByType(blocks, "procedures_mutatorarg")
        usedNames == [i \in 1..Len(args) |-> getFieldValue(args[i])]
        argValue  == generateUniqueNameFromOptions(DEFAULT_ARG, usedNames)
    IN  <<Template("procedures_mutatorarg", argValue)>>

\* The id of the main workspace; a mutator without a workspace has id 0.
MainId == 1
NoWorkspace == 0

\* An event: its type, the id of its workspace and, for a bubble event, the
\* id of the block owning the bubble (0: none), the kind of bubble and
\* whether it opened.
Event(type, workspaceId, blockId, bubbleType, isOpen) ==
    [type |-> type, workspaceId |-> workspaceId, blockId |-> blockId,
     bubbleType |-> bubbleType, isOpen |-> isOpen]

BlockEvent(type, workspaceId) == Event(type, workspaceId, 0, "", FALSE)

\* A mutator that is not open: block.mutator.getWorkspace() is null.
ClosedMutator ==
    [workspaceId |-> NoWorkspace, blocks |-> <<>>, toolbox |-> <<>>,
     listeners |-> <<>>]

\* What a listener did: whether it raised, and the mutators afterwards.
Outcome(threw, ms) == [threw |-> threw, mutators |-> ms]

\* mutatorChangeListener reacting to block-create and block-delete only.
mutatorChangeListenerNoChange(e, ms) ==
    IF e.type # BLOCK_CREATE /\ e.type # BLOCK_DELETE
    THEN Outcome(FALSE, ms)
    ELSE LET k == CHOOSE i \in DOMAIN ms : ms[i].workspaceId = e.workspaceId
         IN  Outcome(FALSE,
                     [ms EXCEPT ![k].toolbox = updateMutatorFlyout(ms[k].blocks)])

\* mutatorChangeListener(e): common.getWorkspaceById(e.workspaceId) is the
\* workspace the listener was called on.
mutatorChangeListener(e, ms) ==
    IF e.type # BLOCK_CREATE /\ e.type # BLOCK_DELETE /\ e.type # BLOCK_CHANGE
    THEN Outcome(FALSE, ms)
    ELSE LET k == CHOOSE i \in DOMAIN ms : ms[i].workspaceId = e.workspaceId
         IN  Outcome(FALSE,
                     [ms EXCEPT ![k].toolbox = updateMutatorFlyout(ms[k].blocks)])

\* mutatorOpenListener(e). The block is looked up in the event's workspace;
\* when its mutator has no workspace (the bubble was closed before the event
\* was delivered) updateMutatorFlyout(null) raises a TypeError.
mutatorOpenListener(e, ws, ms) ==
    IF e.type # BUBBLE_OPEN THEN Outcome(FALSE, ms)
    ELSE IF ~(e.bubbleType = "mutator" /\ e.isOpen) \/ e.blockId = 0
    THEN Outcome(FALSE, ms)
    ELSE LET type == ws[e.blockId].type
         IN  IF type # "procedures_defnoreturn" /\ type # "procedures_defreturn"
             THEN Outcome(FALSE, ms)
             ELSE IF ms[e.blockId].workspaceId = NoWorkspace
             THEN Outcome(TRUE, ms)
             ELSE Outcome(FALSE,
                      [ms EXCEPT
                          ![e.blockId].toolbox =
                              updateMutatorFlyout(ms[e.blockId].blocks),
                          ![e.blockId].listeners =
                              Append(@, "mutatorChangeListener")])

\* workspace.fireChangeListener(e): every listener registered is called, in
\* order of registration.
RECURSIVE fireChangeListener(_, _, _)
fireChangeListener(e, listeners, ms) ==
    IF listeners = <<>> THEN Outcome(FALSE, ms)
    ELSE fireChangeListener(e, Tail(listeners),
                            mutatorChangeListener(e, ms).mutators)

---------------------------------------------------------------------------
(* SpecMutator: mutator bubbles opened, edited and closed; events delivered *)

\* Most events fired and not yet delivered.
MaxQueue == (MaxBlocks + 1) \div 2

\* The names a parameter is renamed to in a mutator.
ArgNames == {<<"x">>, <<"X">>}

\* The blocks of the main workspace: two definitions and a block of another
\* type that has a mutator.
DefWithArg   == Block("procedures_defnoreturn", N_foo, N_x, DefCaps)
DefNoArg     == Block("procedures_defreturn", N_foo2, <<>>, DefCaps)
IfBlock      == Block("controls_if", <<>>, <<>>, {"mutationToDom",
                                                   "domToMutation"})

MutatorWorkspaces == {<<DefWithArg, IfBlock>>, <<IfBlock, DefNoArg>>}

\* block.decompose(workspace): the blocks a mutator workspace opens with, and
\* the toolbox the mutator was built with.
decompose(block) ==
    IF block.type = "controls_if"
    THEN <<Block("controls_if_if", Null, <<>>, {})>>
    ELSE <<Block("procedures_mutatorcontainer", Null, <<>>, {})>>
         \o [i \in 1..Len(block.args) |->
                Block("procedures_mutatorarg", <<block.args[i]>>, <<>>, {})]

quarkXml(block) ==
    IF block.type = "controls_if"
    THEN <<Template("controls_if_elseif", Null)>>
    ELSE <<Template("procedures_mutatorarg", <<DEFAULT_ARG>>)>>

\* The ids of the workspaces that exist or that a pending event names.
IdsInUse ==
    {MainId} \cup {mutators[i].workspaceId : i \in DOMAIN mutators}
             \cup {queue[k].workspaceId : k \in DOMAIN queue}

\* The id of a new workspace: one no workspace has and no event names.
NewId == CHOOSE n \in 2..(Cardinality(IdsInUse) + 2) :
             /\ n \notin IdsInUse
             /\ \A m \in 2..(n - 1) : m \in IdsInUse

InitMutator ==
    /\ workspace \in MutatorWorkspaces
    /\ isFlyout = FALSE
    /\ recordUndo = TRUE
    /\ Blocks = {}
    /\ events = <<>>
    /\ op = "init"
    /\ arg = <<>>
    /\ ret = <<>>
    /\ calls = <<>>
    /\ mutators = [i \in 1..Len(workspace) |-> ClosedMutator]
    /\ queue = <<>>
    /\ pathObject = <<>>

Unchanged == UNCHANGED <<workspace, isFlyout, recordUndo, Blocks, events,
                         arg, calls, pathObject>>

\* The user, or the editor on their behalf, does something that fires an event.
Edits(ms, q) ==
    /\ Len(queue) < MaxQueue
    /\ mutators' = ms
    /\ queue' = q
    /\ UNCHANGED <<op, ret>>
    /\ Unchanged

\* The mutator bubble of a block is opened: the mutator workspace is built
\* from the block and a bubble-open event is fired.
OpenMutator ==
    \E i \in DOMAIN mutators :
        /\ mutators[i].workspaceId = NoWorkspace
        /\ Edits([mutators EXCEPT ![i] =
                     [workspaceId |-> NewId,
                      blocks |-> decompose(workspace[i]),
                      toolbox |-> quarkXml(workspace[i]),
                      listeners |-> <<>>]],
                 Append(queue, Event(BUBBLE_OPEN, MainId, i, "mutator", TRUE)))

\* The mutator bubble is closed: its workspace is disposed of.
CloseMutator ==
    \E i \in DOMAIN mutators :
        /\ mutators[i].workspaceId # NoWorkspace
        /\ Edits([mutators EXCEPT ![i] = ClosedMutator],
                 Append(queue, Event(BUBBLE_OPEN, MainId, i, "mutator", FALSE)))

\* The template of the toolbox is dragged into the mutator workspace.
CreateBlock ==
    \E i \in DOMAIN mutators :
        LET m == mutators[i]
            t == m.toolbox[1]
            name == IF t.children = <<>> THEN Null ELSE t.children[1].text
        IN  /\ m.workspaceId # NoWorkspace
            /\ Len(m.blocks) < MaxBlocks
            /\ Edits([mutators EXCEPT ![i].blocks =
                         Append(@, Block(t.type, name, <<>>, {}))],
                     Append(queue, BlockEvent(BLOCK_CREATE, m.workspaceId)))

\* A block other than the container is deleted from the mutator workspace.
DeleteBlock ==
    \E i \in DOMAIN mutators :
        \E k \in 2..Len(mutators[i].blocks) :
            LET m == mutators[i]
            IN  Edits([mutators EXCEPT ![i].blocks =
                          SubSeq(m.blocks, 1, k - 1)
                          \o SubSeq(m.blocks, k + 1, Len(m.blocks))],
                      Append(queue, BlockEvent(BLOCK_DELETE, m.workspaceId)))

\* The NAME field of a parameter block is edited.
ChangeField ==
    \E i \in DOMAIN mutators :
        \E k \in 2..Len(mutators[i].blocks), name \in ArgNames :
            LET m == mutators[i]
            IN  /\ m.blocks[k].type = "procedures_mutatorarg"
                /\ m.blocks[k].name # name
                /\ Edits([mutators EXCEPT ![i].blocks[k].name = name],
                         Append(queue, BlockEvent(BLOCK_CHANGE, m.workspaceId)))

\* A block is moved in the mutator workspace.
MoveBlock ==
    \E i \in DOMAIN mutators :
        /\ mutators[i].workspaceId # NoWorkspace
        /\ Edits(mutators,
                 Append(queue, BlockEvent(BLOCK_MOVE,
                                          mutators[i].workspaceId)))

\* Something else happens in the main workspace: a click, a block created,
\* a comment bubble opened, a bubble event that names no block.
OtherEvents ==
    {BlockEvent(CLICK, MainId), BlockEvent(BLOCK_CREATE, MainId),
     Event(BUBBLE_OPEN, MainId, 1, "comment", TRUE),
     Event(BUBBLE_OPEN, MainId, 0, "mutator", TRUE)}

FireOther == \E e \in OtherEvents : Edits(mutators, Append(queue, e))

\* The oldest pending event is delivered to the main workspace, whose
\* change listener is mutatorOpenListener.
MutatorOpenListener ==
    /\ queue # <<>>
    /\ Head(queue).workspaceId = MainId
    /\ LET out == mutatorOpenListener(Head(queue), workspace, mutators)
       IN  /\ op' = "mutatorOpenListener"
           /\ ret' = [threw |-> out.threw]
           /\ mutators' = out.mutators
    /\ queue' = Tail(queue)
    /\ Unchanged

\* The mutator workspaces that exist.
Live == {i \in DOMAIN mutators : mutators[i].workspaceId # NoWorkspace}

\* The oldest pending event is delivered to the mutator workspace it names,
\* which has a change listener.
MutatorChangeListener ==
    /\ queue # <<>>
    /\ \E i \in Live :
          /\ mutators[i].workspaceId = Head(queue).workspaceId
          /\ mutators[i].listeners # <<>>
          /\ LET out == fireChangeListener(Head(queue), mutators[i].listeners,
                                           mutators)
             IN  /\ op' = "mutatorChangeListener"
                 /\ ret' = [threw |-> out.threw]
                 /\ mutators' = out.mutators
    /\ queue' = Tail(queue)
    /\ Unchanged

\* The oldest pending event names a workspace that has no listener or that
\* no longer exists: nothing is called.
NoListener ==
    /\ queue # <<>>
    /\ Head(queue).workspaceId # MainId
    /\ \A i \in Live :
          mutators[i].workspaceId = Head(queue).workspaceId
              => mutators[i].listeners = <<>>
    /\ op' = "fireChangeListener"
    /\ ret' = [threw |-> FALSE]
    /\ queue' = Tail(queue)
    /\ UNCHANGED mutators
    /\ Unchanged

NextMutator ==
    \/ OpenMutator
    \/ CloseMutator
    \/ CreateBlock
    \/ DeleteBlock
    \/ ChangeField
    \/ MoveBlock
    \/ FireOther
    \/ MutatorOpenListener
    \/ MutatorChangeListener
    \/ NoListener

SpecMutator == InitMutator /\ [][NextMutator]_vars

---------------------------------------------------------------------------
(* getDefinition; SpecScan: the scans over workspaces with half-built blocks *)

\* null, as getDefinition returns it: the index of no block.
NoBlock == 0

\* The loop of getDefinition from the i-th block on.
RECURSIVE getDefinitionFrom(_, _, _)
getDefinitionFrom(i, name, ws) ==
    IF i > Len(ws) THEN NoBlock
    ELSE IF "getProcedureDef" \notin ws[i].caps
    THEN getDefinitionFrom(i + 1, name, ws)
    ELSE LET tuple == getProcedureDef(ws[i])
         IN  IF tuple # Null /\ NamesEquals(tuple[1], name) THEN i
             ELSE getDefinitionFrom(i + 1, name, ws)

\* getDefinition(name, workspace): the index of the block returned.
getDefinition(name, ws) == getDefinitionFrom(1, name, ws)

\* Blocks of every kind the scans meet: definitions and callers whose names
\* differ in case or in a digit, a caller that is half-built (its name is
\* null), a definition that is half-built (it has no tuple to give yet), a
\* definition of another type, and a block that is no procedure block.
HalfBuiltCaller == Block("procedures_callnoreturn", Null, <<>>, CallerCaps)
HalfBuiltDef    == Block("procedures_defnoreturn", Null, Null, DefCaps)

ScanBlocks ==
    {Block("procedures_defnoreturn", N_foo, <<>>, DefCaps),
     Block("procedures_defreturn", N_Foo, N_x, DefCaps),
     Block("custom_def", N_foo2, <<>>, {"getProcedureDef"}),
     Block("procedures_callnoreturn", N_foo, <<>>, CallerCaps),
     Block("procedures_callreturn", N_Foo, N_x, CallerCaps),
     HalfBuiltCaller, HalfBuiltDef, PlainBlock}

ScanNames == {N_foo, N_Foo, N_foo2}

InitScan ==
    /\ workspace \in SeqsUpTo(ScanBlocks, MaxBlocks)
    /\ isFlyout = FALSE
    /\ recordUndo = TRUE
    /\ Blocks = {}
    /\ events = <<>>
    /\ op = "init"
    /\ arg = <<>>
    /\ ret = <<>>
    /\ calls = <<>>
    /\ NoGui

ScanFrame == UNCHANGED <<workspace, isFlyout, recordUndo, Blocks, events,
                         calls, mutators, queue, pathObject>>

IsNameUsed ==
    \E name \in ScanNames, opt_exclude \in 0..Len(workspace) :
        /\ op' = "isNameUsed"
        /\ arg' = [name |-> name, opt_exclude |-> opt_exclude]
        /\ ret' = isNameUsedFrom(1, name, workspace, opt_exclude)
        /\ ScanFrame

GetCallers ==
    \E name \in ScanNames :
        /\ op' = "getCallers"
        /\ arg' = [name |-> name, opt_exclude |-> NoBlock]
        /\ ret' = Returns(getCallers(name, workspace))
        /\ ScanFrame

GetDefinition ==
    \E name \in ScanNames :
        /\ op' = "getDefinition"
        /\ arg' = [name |-> name, opt_exclude |-> NoBlock]
        /\ ret' = Returns(getDefinition(name, workspace))
        /\ ScanFrame

NextScan == IsNameUsed \/ GetCallers \/ GetDefinition

SpecScan == InitScan /\ [][NextScan]_vars

---------------------------------------------------------------------------
(* PathObject (src/core/renderers/common/path_object.js) *)

\* An attribute that was never set.
Unset == ""

\* The renderer's constants the path object reads.
RendererConstants ==
    [embossFilterId |-> "blocklyEmbossFilter1",
     disabledPatternId |-> "blocklyDisabledPattern1"]

\* Two block styles of a theme.
StyleA == [colourPrimary |-> "#5b80a5", colourSecondary |-> "#bdccdb",
           colourTertiary |-> "#496684"]
StyleB == [colourPrimary |-> "#a55b80", colourSecondary |-> "#dbbdcc",
           colourTertiary |-> "#844966"]
Styles == {StyleA, StyleB}

\* A block as applyColour reads it: isShadow(), isEnabled() and
\* getInheritedDisabled().
SourceBlocks == [isShadow : BOOLEAN, isEnabled : BOOLEAN,
                 inheritedDisabled : BOOLEAN]

\* new PathObject(root, style, constants): a path element with the class
\* blocklyPath is created under the root.
PathObject(root, style, constants) ==
    [constants |-> constants,
     svgRoot   |-> root,
     svgPath   |-> [class |-> "blocklyPath", stroke |-> Unset, fill |-> Unset,
                    filter |-> Unset],
     style     |-> style]

\* svgPath.setAttribute(name, value)
setAttribute(po, name, value) ==
    CASE name = "stroke" -> [po EXCEPT !.svgPath.stroke = value]
      [] name = "fill"   -> [po EXCEPT !.svgPath.fill = value]
      [] name = "filter" -> [po EXCEPT !.svgPath.filter = value]

\* dom.addClass and dom.removeClass on the class list of an element.
addClass(classes, className)    == classes \cup {className}
removeClass(classes, className) == classes \ {className}

\* setClass_ that only ever adds the class.
setClassAddOnly(po, className, add) ==
    IF add THEN [po EXCEPT !.svgRoot = addClass(@, className)] ELSE po

setClass_(po, className, add) ==
    IF add THEN [po EXCEPT !.svgRoot = addClass(@, className)]
    ELSE [po EXCEPT !.svgRoot = removeClass(@, className)]

updateHighlighted(po, enable) ==
    IF enable
    THEN setAttribute(po, "filter",
                      "url(#" \o po.constants.embossFilterId \o ")")
    ELSE setAttribute(po, "filter", "none")

updateShadow_(po, shadow) ==
    IF shadow
    THEN setAttribute(setAttribute(po, "stroke", "none"),
                      "fill", po.style.colourSecondary)
    ELSE po

updateDisabled_(po, disabled) ==
    LET classed == setClass_(po, "blocklyDisabled", disabled)
    IN  IF disabled
        THEN setAttribute(classed, "fill",
                          "url(#" \o po.constants.disabledPatternId \o ")")
        ELSE classed

applyColour(po, block) ==
    LET stroked  == setAttribute(po, "stroke", po.style.colourTertiary)
        filled   == setAttribute(stroked, "fill", po.style.colourPrimary)
        shadowed == updateShadow_(filled, block.isShadow)
    IN  updateDisabled_(shadowed, ~block.isEnabled \/ block.inheritedDisabled)

setStyle(po, blockStyle) == [po EXCEPT !.style = blockStyle]

updateSelected(po, enable)        == setClass_(po, "blocklySelected", enable)
updateDraggingDelete(po, enable)  == setClass_(po, "blocklyDraggingDelete",
                                               enable)
updateInsertionMarker(po, enable) == setClass_(po, "blocklyInsertionMarker",
                                               enable)
updateMovable(po, enable)         == setClass_(po, "blocklyDraggable", enable)
updateReplacementFade(po, enable) == setClass_(po, "blocklyReplaceable", enable)

InitPath ==
    /\ workspace = <<>>
    /\ isFlyout = FALSE
    /\ recordUndo = TRUE
    /\ Blocks = {}
    /\ events = <<>>
    /\ op = "init"
    /\ arg = <<>>
    /\ ret = <<>>
    /\ calls = <<>>
    /\ mutators = <<>>
    /\ queue = <<>>
    /\ \E style \in Styles : pathObject = PathObject({}, style, RendererConstants)

\* A method of the path object is called: op is its name, arg its argument.
Method(name, argument, po) ==
    /\ op' = name
    /\ arg' = argument
    /\ pathObject' = po
    /\ UNCHANGED <<workspace, isFlyout, recordUndo, Blocks, events, ret, calls,
                   mutators, queue>>

ApplyColour ==
    \E block \in SourceBlocks :
        Method("applyColour", block, applyColour(pathObject, block))

SetStyle ==
    \E blockStyle \in Styles :
        Method("setStyle", blockStyle, setStyle(pathObject, blockStyle))

UpdateHighlighted ==
    \E enable \in BOOLEAN :
        Method("updateHighlighted", enable,
               updateHighlighted(pathObject, enable))

UpdateSelected ==
    \E enable \in BOOLEAN :
        Method("updateSelected", enable, updateSelected(pathObject, enable))

UpdateDraggingDelete ==
    \E enable \in BOOLEAN :
        Method("updateDraggingDelete", enable,
               updateDraggingDelete(pathObject, enable))

UpdateInsertionMarker ==
    \E enable \in BOOLEAN :
        Method("updateInsertionMarker", enable,
               updateInsertionMarker(pathObject, enable))

UpdateMovable ==
    \E enable \in BOOLEAN :
        Method("updateMovable", enable, updateMovable(pathObject, enable))

UpdateReplacementFade ==
    \E enable \in BOOLEAN :
        Method("updateReplacementFade", enable,
               updateReplacementFade(pathObject, enable))

NextPath ==
    \/ ApplyColour
    \/ SetStyle
    \/ UpdateHighlighted
    \/ UpdateSelected
    \/ UpdateDraggingDelete
    \/ UpdateInsertionMarker
    \/ UpdateMovable
    \/ UpdateReplacementFade

SpecPath == InitPath /\ [][NextPath]_vars

---------------------------------------------------------------------------
(* Claims about findLegalName (under Spec) *)

Returned == op = "findLegalName" /\ ~ret.hang

\* C1: whenever findLegalName(n, b) returns for a block b that is not in a
\* flyout, the name returned is not empty and isNameUsed(r, w, b) is false:
\* no block other than b that exposes getProcedureDef has a name equal to it
\* under Names.equals.
C1_LegalName ==
    (Returned /\ ~isFlyout) =>
        /\ ret.name # <<>>
        /\ ~isNameUsed(ret.name, workspace, arg.block)
        /\ \A i \in DefinitionBlocks \ {arg.block} :
               toLowerCase(workspace[i].name) # toLowerCase(ret.name)

\* The empty name was proposed and the default collided, or: two collisions.
C1_Witness ==
    /\ Returned /\ ~isFlyout
    /\ Len(ret.trace) >= 3
    /\ \E i \in DefinitionBlocks \ {arg.block} :
           NamesEquals(workspace[i].name, ret.trace[1])

\* The bump the specification describes: a name ending in decimal digits has
\* that integer incremented by one, any other name has "2" appended.
ClaimedBump(name) ==
    LET k == trailingDigits(name)
    IN  IF k = 0 THEN name \o <<"2">>
        ELSE SubSeq(name, 1, Len(name) - k)
             \o incDigits(stripZeros(SubSeq(name, Len(name) - k + 1, Len(name))))

\* C6: in findLegalName on a non-flyout block every collision applies the
\* claimed bump to the candidate (trailing integer plus one, or "2"
\* appended): each candidate tested is the claimed bump of the one before.
C6_ClaimedBump ==
    (op = "findLegalName" /\ ~isFlyout) =>
        \A i \in 1..(Len(ret.trace) - 1) :
            ret.trace[i + 1] = ClaimedBump(ret.trace[i])

\* C7: findLegalName terminates, no candidate is tested twice and at most
\* (number of definition blocks + 1) candidates are tested.
C7_Terminates ==
    op = "findLegalName" =>
        /\ ~ret.hang
        /\ \A i, j \in 1..Len(ret.trace) :
               i # j => ret.trace[i] # ret.trace[j]
        /\ Len(ret.trace) <= Cardinality(DefinitionBlocks) + 1

\* C8: findLegalName is idempotent: applied to a name it returned, for the
\* same block and workspace, it returns that name again (in a flyout and
\* outside one).
C8_Idempotent ==
    Returned =>
        LET again == findLegalName(ret.name, workspace, isFlyout, arg.block)
        IN  ~again.hang /\ again.name = ret.name

\* A name that collided was legalized outside a flyout, so the second call
\* starts from a bumped name.
C8_Witness ==
    /\ Returned /\ ~isFlyout
    /\ Len(ret.trace) >= 2
    /\ ret.name # arg.name

---------------------------------------------------------------------------
(* Claims about rename *)

\* C2: starting from a workspace whose non-flyout definition blocks have
\* pairwise different names, after any sequence of renames, each committing
\* the name rename returned, no two non-flyout definition blocks share a
\* name (under SpecRenameDistinct).
C2_NoSharedName == NoSharedName

\* A rename outside a flyout whose proposed name collided with another
\* definition and was committed bumped.
C2_Witness ==
    /\ op = "rename" /\ ~isFlyout
    /\ Cardinality(DefinitionBlocks) >= 2
    /\ ret.name # trim(arg.name)
    /\ workspace[arg.block].name = ret.name

\* The renameProcedure invocations on every block that exposes it, once
\* each, in workspace order.
EveryRenameProcedure(oldName, newName) ==
    LET targets == SelectSeq([i \in 1..Len(workspace) |-> i],
                             LAMBDA i : "renameProcedure" \in workspace[i].caps)
    IN  [k \in 1..Len(targets) |->
            [block |-> targets[k], oldName |-> oldName, newName |-> newName]]

\* The legalized form of the name the last rename was given. (The renamed
\* block is excluded from the scan and rename changes no other definition's
\* name, so the workspace after the rename gives the name it gave before.)
Legalized ==
    findLegalName(trim(arg.name), workspace, isFlyout, arg.block).name

\* C3 as stated: rename returns the legalized name; renameProcedure(oldName,
\* legalName) is invoked exactly once on every block exposing it when the
\* legalized name differs from the field's prior value, and on no block when
\* it equals it (under SpecRename).
C3_AsStated ==
    op = "rename" =>
        /\ ret.name = Legalized
        /\ calls = IF Legalized # arg.oldName
                   THEN EveryRenameProcedure(arg.oldName, Legalized)
                   ELSE <<>>

\* C3 amended: rename returns the legalized name; renameProcedure(oldName,
\* legalName) is invoked exactly once on every block exposing it when the
\* field's prior value differs (as a string) both from the trimmed proposed
\* name and from the legalized name, and on no block otherwise.
C3_Amended ==
    op = "rename" =>
        /\ ret.name = Legalized
        /\ calls = IF arg.oldName # trim(arg.name) /\ arg.oldName # Legalized
                   THEN EveryRenameProcedure(arg.oldName, Legalized)
                   ELSE <<>>

\* A rename to a new name that invoked renameProcedure on a caller, which
\* now calls the new name; a definition block was not invoked.
C3_Witness ==
    /\ op = "rename"
    /\ calls # <<>>
    /\ Len(calls) < Len(workspace)
    /\ \E k \in 1..Len(calls) :
           workspace[calls[k].block].name = ret.name

---------------------------------------------------------------------------
(* Claims about mutateCallers (under SpecMutate) *)

\* The serialized mutation of the i-th block of ws.
Serialized(ws, i) == domToText(mutationToDom(ws[i]))

\* The callers getCallers found for the definition the last mutateCallers
\* was given.
FoundCallers == Range(getCallers(arg.before[arg.block].name, arg.before))

\* A block-change event (old, new serialized mutation) is fired for a caller
\* exactly when its serialized mutation changed, and for no other block.
EventsIffChanged ==
    /\ \A c \in FoundCallers :
          IF Serialized(arg.before, c) # Serialized(workspace, c)
          THEN Cardinality({k \in 1..Len(events) : events[k].block = c}) = 1
          ELSE \A k \in 1..Len(events) : events[k].block # c
    /\ \A k \in 1..Len(events) :
          /\ events[k].block \in FoundCallers
          /\ events[k].type = "change" /\ events[k].element = "mutation"
          /\ events[k].oldValue = Serialized(arg.before, events[k].block)
          /\ events[k].newValue = Serialized(workspace, events[k].block)

\* C4 as stated: after mutateCallers(definitionBlock) every caller found by
\* getCallers has a serialized mutation equal to the definition's, and an
\* event is fired for a caller iff its serialized mutation changed.
C4_AsStated ==
    op = "mutateCallers" =>
        /\ \A c \in FoundCallers :
              Serialized(workspace, c) = Serialized(workspace, arg.block)
        /\ EventsIffChanged

\* C4 amended: after mutateCallers(definitionBlock) every caller found by
\* getCallers that exposes domToMutation has a serialized mutation equal to
\* the definition's, a caller without domToMutation keeps its mutation, and
\* an event is fired for a caller iff its serialized mutation changed.
C4_Amended ==
    op = "mutateCallers" =>
        /\ \A c \in FoundCallers :
              IF "domToMutation" \in workspace[c].caps
              THEN Serialized(workspace, c) = Serialized(workspace, arg.block)
              ELSE workspace[c] = arg.before[c]
        /\ \A i \in 1..Len(workspace) :
              i \notin FoundCallers => workspace[i] = arg.before[i]
        /\ EventsIffChanged

\* One caller was brought up to date (an event), another was already
\* identical (no event).
C4_Witness ==
    /\ op = "mutateCallers"
    /\ \E c, d \in FoundCallers :
          /\ Serialized(arg.before, c) # Serialized(workspace, c)
          /\ Serialized(workspace, c) = Serialized(workspace, arg.block)
          /\ Serialized(arg.before, d) = Serialized(workspace, arg.block)
          /\ \E k \in 1..Len(events) : events[k].block = c
          /\ \A k \in 1..Len(events) : events[k].block # d

\* C5: every event mutateCallers fires is made while the record-undo flag is
\* false, whatever the flag was before the call and however many callers
\* there are, and the flag is afterwards what it was before the call.
C5_UndoSuppressed ==
    op = "mutateCallers" =>
        /\ \A k \in 1..Len(events) : events[k].recordUndo = FALSE
        /\ recordUndo = arg.recordUndo

\* Events were fired by a call made while undo was being recorded.
C5_Witness ==
    /\ op = "mutateCallers"
    /\ arg.recordUndo = TRUE
    /\ Len(events) >= 2
    /\ recordUndo = TRUE

---------------------------------------------------------------------------
(* Claims about allProcedures and flyoutCategory (under SpecFlyout) *)

\* The number of times x occurs in a sequence.
Count(seq, x) == Cardinality({i \in 1..Len(seq) : seq[i] = x})

\* list holds exactly the members of of (each as often).
SameMembers(list, of) ==
    /\ Len(list) = Len(of)
    /\ \A i \in 1..Len(of) : Count(list, of[i]) = Count(of, of[i])

\* a is not after b when case is ignored: letter by letter in alphabetical
\* order (digits before letters), a prefix before its extensions.
NotAfterIgnoringCase(a, b) ==
    LET la == toLowerCase(a)
        lb == toLowerCase(b)
        Pos(c) == IndexOf(Digits \o LowerCase, c)
        Differ == {i \in 1..Len(la) : i > Len(lb) \/ la[i] # lb[i]}
        first == CHOOSE i \in Differ : \A j \in Differ : i <= j
    IN  IF Differ = {} THEN TRUE
        ELSE first <= Len(lb) /\ Pos(la[first]) < Pos(lb[first])

\* The tuples of a list are ordered by name, ignoring case.
SortedByName(list) ==
    \A i \in 1..(Len(list) - 1) :
        NotAfterIgnoringCase(list[i][1], list[i + 1][1])

\* The getProcedureDef tuples of the blocks of a type.
TuplesOfType(type) ==
    LET blocks == SelectSeq(workspace, LAMBDA b : b.type = type)
    IN  [i \in 1..Len(blocks) |->
            <<blocks[i].name, blocks[i].args, type = "procedures_defreturn">>]

PresentSystemTypes ==
    SelectSeq(<<"procedures_defnoreturn", "procedures_defreturn",
                "procedures_ifreturn">>, LAMBDA t : t \in Blocks)

\* The procedure a call template calls: its name and parameters.
Called(template) ==
    <<template.children[1].name, template.children[1].args>>

\* The templates from..to of the list are call templates of a type, one per
\* definition of defType, ordered by name.
CallTemplates(list, from, to, type, defType) ==
    LET part == SubSeq(list, from, to)
        defs == TuplesOfType(defType)
    IN  /\ \A i \in 1..Len(part) : part[i].type = type
        /\ SameMembers([i \in 1..Len(part) |-> Called(part[i])],
                       [i \in 1..Len(defs) |-> <<defs[i][1], defs[i][2]>>])
        /\ SortedByName([i \in 1..Len(part) |-> Called(part[i])])

\* C10: flyoutCategory returns the system templates of the registered types
\* in the order no-return definition, return definition, if-return, then one
\* call template per no-return procedure sorted by name, then one per return
\* procedure sorted by name; every gap is 16 except that of the last system
\* template present, which is 24 (no gap is 24 when no system type is
\* registered).
C10_FlyoutOrder ==
    op = "flyoutCategory" =>
        LET k == Len(PresentSystemTypes)
            n == Len(TuplesOfType("procedures_defnoreturn"))
            m == Len(TuplesOfType("procedures_defreturn"))
        IN  /\ Len(ret) = k + n + m
            /\ \A i \in 1..k : ret[i].type = PresentSystemTypes[i]
            /\ CallTemplates(ret, k + 1, k + n, "procedures_callnoreturn",
                             "procedures_defnoreturn")
            /\ CallTemplates(ret, k + n + 1, k + n + m,
                             "procedures_callreturn", "procedures_defreturn")
            /\ \A i \in 1..Len(ret) :
                  ret[i].gap = IF i = k THEN 24 ELSE 16

\* Two system templates are present (one type is not registered), followed
\* by the call templates of procedures of both kinds.
C10_Witness ==
    /\ op = "flyoutCategory"
    /\ Len(PresentSystemTypes) = 2
    /\ "procedures_defreturn" \notin Blocks
    /\ ret[2].gap = 24
    /\ Len(ret) >= 5
    /\ \E i \in 3..(Len(ret) - 1) :
          /\ ret[i].type = "procedures_callnoreturn"
          /\ ret[i + 1].type = "procedures_callreturn"

---------------------------------------------------------------------------
(* Claims about the mutator flyout (under SpecMutator) *)

\* The names of the parameter blocks in the workspace of a mutator.
ArgBlockNames(m) ==
    {m.blocks[k].name :
        k \in {j \in 1..Len(m.blocks) :
                  m.blocks[j].type = "procedures_mutatorarg"}}

\* The flyout of a mutator offers a single parameter template, whose name
\* differs from the name of every parameter block of the mutator workspace.
OffersFreshName(m) ==
    /\ Len(m.toolbox) = 1
    /\ m.toolbox[1].type = "procedures_mutatorarg"
    /\ Len(m.toolbox[1].children) = 1
    /\ m.toolbox[1].children[1].text \notin ArgBlockNames(m)

\* The block is a procedure definition block.
IsDefinition(block) ==
    block.type \in {"procedures_defnoreturn", "procedures_defreturn"}

\* The event is the opening of the mutator bubble of a definition block.
OpensDefinitionMutator(e) ==
    /\ e.type = BUBBLE_OPEN
    /\ e.bubbleType = "mutator"
    /\ e.isOpen
    /\ e.blockId \in DOMAIN workspace
    /\ IsDefinition(workspace[e.blockId])

\* The event is a block-create, block-delete or block-change event.
ChangesBlocks(e) == e.type \in {BLOCK_CREATE, BLOCK_DELETE, BLOCK_CHANGE}

\* The mutators whose flyout the delivery of an event brings up to date: the
\* mutator a definition's bubble-open event opened, or the definition's
\* mutator in whose workspace blocks were created, deleted or changed.
Refreshed(e) ==
    IF OpensDefinitionMutator(e) THEN {e.blockId} \cap Live
    ELSE IF ChangesBlocks(e)
         THEN {i \in Live : /\ mutators[i].workspaceId = e.workspaceId
                            /\ IsDefinition(workspace[i])}
         ELSE {}

\* A step that delivers the oldest pending event to the listeners.
Delivers == queue # <<>> /\ queue' = Tail(queue)

\* Once an event is delivered, the flyouts it concerns offer a fresh name
\* and every other flyout is as it was.
FlyoutFollowsEvent ==
    Delivers =>
        /\ \A i \in Refreshed(Head(queue)) : OffersFreshName(mutators'[i])
        /\ \A i \in DOMAIN mutators \ Refreshed(Head(queue)) :
               mutators'[i].toolbox = mutators[i].toolbox

\* An event that would refresh the flyout of mutator i is pending.
Pending(i) ==
    \E k \in DOMAIN queue :
        \/ OpensDefinitionMutator(queue[k]) /\ queue[k].blockId = i
        \/ /\ ChangesBlocks(queue[k])
           /\ queue[k].workspaceId = mutators[i].workspaceId

\* Whenever every event that concerns the open mutator of a definition has
\* been delivered, its flyout offers a fresh name.
FreshWhenDelivered ==
    \A i \in Live :
        (IsDefinition(workspace[i]) /\ ~Pending(i))
            => OffersFreshName(mutators[i])

\* C11: after the bubble-open event of a definition block's mutator and after
\* every later block-create, block-delete or block-change event of that
\* mutator workspace is delivered, the one parameter template the mutator's
\* flyout offers has a name that differs from the name of every parameter
\* block in the mutator workspace; the delivery of an event of another type,
\* of a bubble event that does not open a mutator bubble, or of the event of
\* a bubble of a block that is no definition leaves every flyout as it was.
C11_FlyoutFresh == []FreshWhenDelivered /\ [][FlyoutFollowsEvent]_vars

\* The parameter x of the definition was renamed X and a parameter y was
\* added; the change listener ran last, and z is offered.
C11_Witness ==
    /\ op = "mutatorChangeListener"
    /\ queue = <<>>
    /\ \E i \in Live :
          /\ IsDefinition(workspace[i])
          /\ ArgBlockNames(mutators[i]) = {<<"X">>, <<"y">>}
          /\ mutators[i].toolbox[1].children[1].text = <<"z">>

---------------------------------------------------------------------------
(* Claims about the scans (under SpecScan) *)

\* The i-th block is a definition whose name equals the name given.
DefinesName(i, name) ==
    /\ "getProcedureDef" \in workspace[i].caps
    /\ workspace[i].args # Null
    /\ toLowerCase(workspace[i].name) = toLowerCase(name)

\* The i-th block is a caller whose name is not null and equals the name
\* given.
CallsName(i, name) ==
    /\ "getProcedureCall" \in workspace[i].caps
    /\ workspace[i].name # Null
    /\ toLowerCase(workspace[i].name) = toLowerCase(name)

\* No scan raises an error.
ScansNeverRaise ==
    op \in {"isNameUsed", "getCallers", "getDefinition"} => ~ret.threw

\* isNameUsed, when it returns, tells whether a block other than the one
\* excluded defines the name.
IsNameUsedTells ==
    (op = "isNameUsed" /\ ~ret.threw) =>
        (ret.value <=> \E i \in 1..Len(workspace) :
                           i # arg.opt_exclude /\ DefinesName(i, arg.name))

\* getCallers returns exactly the callers of the name, in workspace order.
GetCallersExact ==
    op = "getCallers" =>
        /\ \A k \in 1..Len(ret.value) : CallsName(ret.value[k], arg.name)
        /\ \A i \in 1..Len(workspace) :
              CallsName(i, arg.name) => \E k \in 1..Len(ret.value) :
                                            ret.value[k] = i
        /\ \A k \in 1..(Len(ret.value) - 1) : ret.value[k] < ret.value[k + 1]

\* getDefinition returns the first definition of the name, or null when
\* there is none.
GetDefinitionFirst ==
    op = "getDefinition" =>
        IF \E i \in 1..Len(workspace) : DefinesName(i, arg.name)
        THEN /\ ret.value \in 1..Len(workspace)
             /\ DefinesName(ret.value, arg.name)
             /\ \A i \in 1..(ret.value - 1) : ~DefinesName(i, arg.name)
        ELSE ret.value = NoBlock

\* C12: isNameUsed, getCallers and getDefinition never raise an error: a
\* block without the capability probed and a half-built block whose name
\* resolution yields null are skipped and the scan goes on; getCallers
\* returns exactly the blocks whose call name is not null and equals the
\* name given; getDefinition returns the first block whose definition name
\* equals the name given, or null when there is none.
C12_ScansNeverRaise ==
    /\ ScansNeverRaise
    /\ IsNameUsedTells
    /\ GetCallersExact
    /\ GetDefinitionFirst

---------------------------------------------------------------------------
(* Claims about the path object (under SpecPath) *)

\* The block is disabled, itself or by inheritance.
IsDisabled(block) == ~block.isEnabled \/ block.inheritedDisabled

\* The fill that marks a disabled block.
DisabledPattern == "url(#" \o pathObject.constants.disabledPatternId \o ")"

\* After applyColour(block) the stroke, the fill and the blocklyDisabled
\* class are those of the block's flags and of the style.
ColourReflectsBlock ==
    op = "applyColour" =>
        /\ pathObject.svgPath.stroke =
               IF arg.isShadow THEN "none"
               ELSE pathObject.style.colourTertiary
        /\ pathObject.svgPath.fill =
               IF IsDisabled(arg) THEN DisabledPattern
               ELSE IF arg.isShadow THEN pathObject.style.colourSecondary
               ELSE pathObject.style.colourPrimary
        /\ ("blocklyDisabled" \in pathObject.svgRoot) <=> IsDisabled(arg)

\* The class each toggling method stands for.
ToggledClass ==
    [updateSelected        |-> "blocklySelected",
     updateDraggingDelete  |-> "blocklyDraggingDelete",
     updateInsertionMarker |-> "blocklyInsertionMarker",
     updateMovable         |-> "blocklyDraggable",
     updateReplacementFade |-> "blocklyReplaceable"]

\* A call of a toggling method leaves its class present iff it passed true,
\* and every other call leaves that class as it was.
ClassFollowsLastCall ==
    \A method \in DOMAIN ToggledClass :
        IF op' = method
        THEN (ToggledClass[method] \in pathObject'.svgRoot) <=> arg'
        ELSE (ToggledClass[method] \in pathObject'.svgRoot)
                 <=> (ToggledClass[method] \in pathObject.svgRoot)

\* C13: the path's attributes reflect the flags last set, whatever was
\* called before: after applyColour(block) the stroke is 'none' for a shadow
\* and the style's tertiary colour otherwise, the fill is the disabled
\* pattern for a disabled block (itself or by inheritance), else the
\* secondary colour for a shadow, else the primary colour, and the root has
\* the class blocklyDisabled iff the block is disabled; each class toggled
\* by updateSelected, updateDraggingDelete, updateInsertionMarker,
\* updateMovable and updateReplacementFade is present iff the most recent
\* call of its method passed true.
C13_ReflectsLastFlags ==
    []ColourReflectsBlock /\ [][ClassFollowsLastCall]_vars

\* applyColour on an enabled shadow block in the second style, the block
\* being highlighted, selected and replaceable and none of the other classes
\* being set.
C13_Witness ==
    /\ op = "applyColour"
    /\ arg.isShadow /\ ~IsDisabled(arg)
    /\ pathObject.style = StyleB
    /\ pathObject.svgPath.fill = StyleB.colourSecondary
    /\ pathObject.svgPath.stroke = "none"
    /\ pathObject.svgPath.filter # Unset
    /\ pathObject.svgRoot = {"blocklySelected", "blocklyReplaceable"}

=============================================================================
